---- MODULE Spec2Model ----
(***************************************************************************)
(* Model of gd (src/main.go, the current revision starting at line 1094):  *)
(* the path tree, the ancestor-preserving filter and the navigation state  *)
(* of the bubbletea model, driven by key, resize, diff-loaded and          *)
(* exec-finished messages, and the diff layout functions.                  *)
(*                                                                         *)
(* Strings are sequences of one-character strings; slice indices, cursor,  *)
(* scroll and the elements of `filtered` keep Go's 0-based values, so      *)
(* line i of the code is allLines[i + 1] here.                             *)
(***************************************************************************)
EXTENDS Integers, Sequences, FiniteSets, TLC

VARIABLES files, allLines, filtered, cursor, scroll, searching, query,
          width, height, treeW, ready, vpWidth, vpHeight, vpContent,
          cmd, proc, inflight, newest, out

vars == <<files, allLines, filtered, cursor, scroll, searching, query,
          width, height, treeW, ready, vpWidth, vpHeight, vpContent,
          cmd, proc, inflight, newest, out>>

\* The model value m and the command Update returned last.
nav == <<files, allLines, filtered, cursor, scroll, searching, query,
         width, height, treeW, ready, vpWidth, vpHeight, vpContent,
         cmd, proc>>

(***************************************************************************)
(* Bounds of the model.                                                    *)
(***************************************************************************)
MaxFiles == 2

MaxQueryLen == 2

\* The changed paths a run may start from.
PathPool ==
    { <<"B">>,
      <<"a">>,
      <<"a", "/", "b">>,
      <<"a", "/", "a", "/", "b">>,
      <<"a", "/", "b", "/", "a">> }

\* Keys the terminal delivers (tea.KeyMsg.String()).
Keys == {"enter", "esc", "backspace", "up", "down", "tab", "ctrl+c",
         "q", "/", "a", "b"}

\* The keys whose String() has length 1.
SingleChar == {"q", "/", "a", "b"}

\* Characters a filter query is drawn from when the filter is applied alone.
QueryChars == {"a", "b", "B", "/"}

\* Terminal sizes a tea.WindowSizeMsg may carry.
Widths == {100}

Heights == {4}

(***************************************************************************)
(* Go string operations.                                                   *)
(***************************************************************************)
Byte(c) ==
    CASE c = "/" -> 47
      [] c = "A" -> 65
      [] c = "B" -> 66
      [] c = "a" -> 97
      [] c = "b" -> 98
      [] c = "q" -> 113

ToLowerChar(c) ==
    CASE c = "A" -> "a"
      [] c = "B" -> "b"
      [] OTHER -> c

ToLower(s) == [i \in 1..Len(s) |-> ToLowerChar(s[i])]

Contains(s, sub) ==
    \E i \in 0..(Len(s) - Len(sub)) : SubSeq(s, i + 1, i + Len(sub)) = sub

\* s < t on Go strings: bytewise lexicographic order.
StrLess(s, t) ==
    \E i \in 1..Len(t) :
        /\ i <= Len(s) + 1
        /\ SubSeq(s, 1, i - 1) = SubSeq(t, 1, i - 1)
        /\ \/ i = Len(s) + 1
           \/ Byte(s[i]) < Byte(t[i])

RECURSIVE Split(_)
Split(s) ==
    LET seps == {i \in 1..Len(s) : s[i] = "/"} IN
    IF seps = {} THEN <<s>>
    ELSE LET i == CHOOSE k \in seps : \A l \in seps : k <= l IN
         <<SubSeq(s, 1, i - 1)>> \o Split(SubSeq(s, i + 1, Len(s)))

(***************************************************************************)
(* Tree.  A treeNode is [name, file, children]; file is the index of the   *)
(* fileStatus record in `files` (the pointer &files[i]), 0 for nil.        *)
(***************************************************************************)
\* insertParts opening a new directory node without looking for one.
RECURSIVE insertPartsNoLookup(_, _, _)
insertPartsNoLookup(children, parts, f) ==
    IF Len(parts) = 1
    THEN Append(children, [name |-> parts[1], file |-> f, children |-> <<>>])
    ELSE Append(children,
                [name |-> parts[1], file |-> 0,
                 children |-> insertPartsNoLookup(<<>>, Tail(parts), f)])

RECURSIVE insertParts(_, _, _)
insertParts(children, parts, f) ==
    IF Len(parts) = 1
    THEN Append(children, [name |-> parts[1], file |-> f, children |-> <<>>])
    ELSE LET hits == {k \in 1..Len(children) :
                         children[k].file = 0 /\ children[k].name = parts[1]}
         IN IF hits = {}
            THEN Append(children,
                        [name |-> parts[1], file |-> 0,
                         children |-> insertParts(<<>>, Tail(parts), f)])
            ELSE LET k == CHOOSE h \in hits : \A l \in hits : h <= l IN
                 [children EXCEPT
                     ![k].children = insertParts(@, Tail(parts), f)]

\* nodeLess without the directories-first rule.
nodeLessByName(x, y) == StrLess(x.name, y.name)

\* The less function of sortTree: directories first, then by name.
nodeLess(x, y) ==
    IF (x.file = 0) # (y.file = 0) THEN x.file = 0
    ELSE StrLess(x.name, y.name)

RECURSIVE insertSorted(_, _)
insertSorted(sorted, n) ==
    IF sorted = <<>> THEN <<n>>
    ELSE IF nodeLess(n, Head(sorted)) THEN <<n>> \o sorted
    ELSE <<Head(sorted)>> \o insertSorted(Tail(sorted), n)

RECURSIVE sortSlice(_)
sortSlice(nodes) ==
    IF nodes = <<>> THEN <<>>
    ELSE insertSorted(sortSlice(SubSeq(nodes, 1, Len(nodes) - 1)),
                      nodes[Len(nodes)])

RECURSIVE sortTree(_)
sortTree(nodes) ==
    LET s == sortSlice(nodes) IN
    [i \in 1..Len(s) |->
        IF s[i].file = 0
        THEN [s[i] EXCEPT !.children = sortTree(@)]
        ELSE s[i]]

RECURSIVE insertFiles(_, _, _)
insertFiles(children, fs, i) ==
    IF i > Len(fs) THEN children
    ELSE insertFiles(insertParts(children, Split(fs[i].path), i), fs, i + 1)

buildTree(fs) == sortTree(insertFiles(<<>>, fs, 1))

\* flattenTree that recurses without increasing the indent.
RECURSIVE flattenTreeSameIndent(_, _)
flattenTreeSameIndent(nodes, indent) ==
    IF nodes = <<>> THEN <<>>
    ELSE LET n == Head(nodes) IN
         (IF n.file # 0
          THEN <<[file |-> n.file, indent |-> indent, name |-> n.name]>>
          ELSE <<[file |-> 0, indent |-> indent, name |-> n.name \o <<"/">>]>>
               \o flattenTreeSameIndent(n.children, indent))
         \o flattenTreeSameIndent(Tail(nodes), indent)

\* flattenTree appending a directory's line after the lines of its children.
RECURSIVE flattenTreeDirLast(_, _)
flattenTreeDirLast(nodes, indent) ==
    IF nodes = <<>> THEN <<>>
    ELSE LET n == Head(nodes) IN
         (IF n.file # 0
          THEN <<[file |-> n.file, indent |-> indent, name |-> n.name]>>
          ELSE flattenTreeDirLast(n.children, indent + 1)
               \o <<[file |-> 0, indent |-> indent, name |-> n.name \o <<"/">>]>>)
         \o flattenTreeDirLast(Tail(nodes), indent)

RECURSIVE flattenTree(_, _)
flattenTree(nodes, indent) ==
    IF nodes = <<>> THEN <<>>
    ELSE LET n == Head(nodes) IN
         (IF n.file # 0
          THEN <<[file |-> n.file, indent |-> indent, name |-> n.name]>>
          ELSE <<[file |-> 0, indent |-> indent, name |-> n.name \o <<"/">>]>>
               \o flattenTree(n.children, indent + 1))
         \o flattenTree(Tail(nodes), indent)

(***************************************************************************)
(* Filter (model.updateFilter).                                            *)
(***************************************************************************)
\* The elements of a set of ints in ascending order (a `for i := range`
\* loop over a slice visits the indices in this order).
RECURSIVE ascending(_)
ascending(S) ==
    IF S = {} THEN <<>>
    ELSE LET lo == CHOOSE x \in S : \A y \in S : x <= y IN
         <<lo>> \o ascending(S \ {lo})

\* lineMatches comparing the path as written, without lowering it.
lineMatchesCaseSensitive(fs, lines, i, q) ==
    \/ q = <<>>
    \/ /\ lines[i + 1].file # 0
       /\ Contains(fs[lines[i + 1].file].path, q)
    \/ /\ lines[i + 1].file = 0
       /\ Contains(ToLower(lines[i + 1].name), q)

\* lineMatches testing a file line by its name, as a directory line is.
lineMatchesByName(fs, lines, i, q) ==
    \/ q = <<>>
    \/ Contains(ToLower(lines[i + 1].name), q)

\* The test of the first loop on line i for the lowered query q.
lineMatches(fs, lines, i, q) ==
    \/ q = <<>>
    \/ /\ lines[i + 1].file # 0
       /\ Contains(ToLower(fs[lines[i + 1].file].path), q)
    \/ /\ lines[i + 1].file = 0
       /\ Contains(ToLower(lines[i + 1].name), q)

\* The first loop starting at index 1.
matchedFromOne(fs, lines, q) ==
    ascending({i \in 1..(Len(lines) - 1) : lineMatches(fs, lines, i, q)})

\* m.filtered after the first loop.
matched(fs, lines, q) ==
    ascending({i \in 0..(Len(lines) - 1) : lineMatches(fs, lines, i, q)})

\* The backward walk stopping at the first directory it adds.
RECURSIVE walkBackToParent(_, _, _)
walkBackToParent(lines, idx, j) ==
    IF j < 0 THEN {}
    ELSE IF lines[j + 1].file = 0 /\ lines[j + 1].indent < lines[idx + 1].indent
         THEN {j}
         ELSE walkBackToParent(lines, idx, j - 1)

\* The backward walk from file line idx, at position j.
RECURSIVE walkBack(_, _, _)
walkBack(lines, idx, j) ==
    IF j < 0 THEN {}
    ELSE IF lines[j + 1].file = 0 /\ lines[j + 1].indent < lines[idx + 1].indent
         THEN {j} \cup (IF lines[j + 1].indent = 0 THEN {}
                        ELSE walkBack(lines, idx, j - 1))
         ELSE walkBack(lines, idx, j - 1)

dirSet(lines, flt) ==
    UNION {walkBack(lines, flt[k], flt[k] - 1) :
              k \in {k \in 1..Len(flt) : lines[flt[k] + 1].file # 0}}

\* The directories appended to m.filtered: those of dirSet not in `existing`.
\* Go visits the map in an unspecified order; the sort that follows makes
\* the order immaterial, so they are appended in ascending order here.
appendDirs(flt, dirs) ==
    flt \o ascending({d \in dirs : \A k \in 1..Len(flt) : flt[k] # d})

RECURSIVE insertInt(_, _)
insertInt(sorted, x) ==
    IF sorted = <<>> THEN <<x>>
    ELSE IF x < Head(sorted) THEN <<x>> \o sorted
    ELSE <<Head(sorted)>> \o insertInt(Tail(sorted), x)

\* sort.Ints left out.
sortIntsSkipped(xs) == xs

\* sort.Ints
RECURSIVE sortInts(_)
sortInts(xs) ==
    IF xs = <<>> THEN <<>>
    ELSE insertInt(sortInts(SubSeq(xs, 1, Len(xs) - 1)), xs[Len(xs)])

\* m.filtered as updateFilter leaves it.
filterIndices(fs, lines, qry) ==
    LET q   == ToLower(qry)
        flt == matched(fs, lines, q)
    IN IF q # <<>> THEN sortInts(appendDirs(flt, dirSet(lines, flt)))
       ELSE flt

\* updateFilter without its clamp.
clampCursorSkipped(c, n) == c

\* The clamp taking the cursor back to the top.
clampCursorReset(c, n) == 0

\* The clamp that ends updateFilter.
clampCursor(c, n) ==
    LET c1 == IF c >= n THEN n - 1 ELSE c IN
    IF c1 < 0 THEN 0 ELSE c1

\* The first-file loop without its assignment to the cursor.
firstFileKeepCursor(lines, flt, c) == c

\* The loop of initialModel and of the enter key in search mode: the
\* position of the first file line of the visible list, else the cursor.
firstFile(lines, flt, c) ==
    LET fs == {i \in 0..(Len(flt) - 1) : lines[flt[i + 1] + 1].file # 0} IN
    IF fs = {} THEN c
    ELSE CHOOSE i \in fs : \A k \in fs : i <= k

(***************************************************************************)
(* Navigation.                                                             *)
(***************************************************************************)
\* model.selectedFile: the index of the selected fileStatus, 0 for nil.
selectedFile(lines, flt, c) ==
    IF c >= 0 /\ c < Len(flt) THEN lines[flt[c + 1] + 1].file ELSE 0

\* The command model.loadPreview returns: the file whose diff is loaded
\* (0: the blank preview) and the width it is rendered at.
loadPreview(lines, flt, c, w, tw) ==
    LET f   == selectedFile(lines, flt, c)
        vpW == IF w - tw - 1 < 40 THEN 40 ELSE w - tw - 1
    IN IF f = 0 THEN [kind |-> "loadPreview", file |-> 0, vpW |-> 0]
       ELSE [kind |-> "loadPreview", file |-> f, vpW |-> vpW]

\* The command model.openFullDiff returns.
openFullDiff(lines, flt, c) ==
    LET f == selectedFile(lines, flt, c) IN
    IF f = 0 THEN [kind |-> "nil", file |-> 0, vpW |-> 0]
    ELSE [kind |-> "exec", file |-> f, vpW |-> width]

\* No layout function has been applied.
noOut == [op |-> "none"]

nilCmd == [kind |-> "nil", file |-> 0, vpW |-> 0]

quitCmd == [kind |-> "quit", file |-> 0, vpW |-> 0]

\* The cursor after model.moveCursor(delta) on a visible list of n lines.
movedCursor(c, delta, n) ==
    LET c1 == c + delta
        c2 == IF c1 < 0 THEN 0 ELSE c1
    IN IF c2 >= n THEN n - 1 ELSE c2

\* movedScroll scrolling down one line too few.
movedScrollShort(c, sc, h) ==
    LET visibleH == IF h - 2 < 1 THEN 1 ELSE h - 2
        s1       == IF c < sc THEN c ELSE sc
    IN IF c >= s1 + visibleH THEN c - visibleH ELSE s1

\* The scroll offset after model.moveCursor, for the moved cursor c.
movedScroll(c, sc, h) ==
    LET visibleH == IF h - 2 < 1 THEN 1 ELSE h - 2
        s1       == IF c < sc THEN c ELSE sc
    IN IF c >= s1 + visibleH THEN c - visibleH + 1 ELSE s1

moveCursor(delta) ==
    IF Len(filtered) = 0
    THEN UNCHANGED <<cursor, scroll>>
    ELSE /\ cursor' = movedCursor(cursor, delta, Len(filtered))
         /\ scroll' = movedScroll(cursor', scroll, height)

updateFilter ==
    /\ filtered' = filterIndices(files, allLines, query')
    /\ cursor' = clampCursor(cursor, Len(filtered'))

(***************************************************************************)
(* Git operations.  The output of `git status --porcelain` is a string.    *)
(***************************************************************************)
RECURSIVE trimRightNewlines(_)
trimRightNewlines(s) ==
    IF s # <<>> /\ s[Len(s)] = "\n"
    THEN trimRightNewlines(SubSeq(s, 1, Len(s) - 1))
    ELSE s

RECURSIVE splitLines(_)
splitLines(s) ==
    LET seps == {i \in 1..Len(s) : s[i] = "\n"} IN
    IF seps = {} THEN <<s>>
    ELSE LET i == CHOOSE k \in seps : \A l \in seps : k <= l IN
         <<SubSeq(s, 1, i - 1)>> \o splitLines(SubSeq(s, i + 1, Len(s)))

\* strings.Index(s, sub), counted from 0; -1 when sub does not occur.
Index(s, sub) ==
    LET at == {i \in 0..(Len(s) - Len(sub)) :
                   SubSeq(s, i + 1, i + Len(sub)) = sub}
    IN IF at = {} THEN -1 ELSE CHOOSE i \in at : \A j \in at : i <= j

arrow == <<" ", "-", ">", " ">>

\* setFlags without the case of the untracked marker.
setFlagsNoMarkerCase(fs, x, y) ==
    [fs EXCEPT !.untracked = (@ \/ (x = "?" /\ y = "?")),
               !.staged = (@ \/ x # " "),
               !.unstaged = (@ \/ y # " ")]

\* The flags one status line with the code x y sets on the record fs.
setFlags(fs, x, y) ==
    IF x = "?" /\ y = "?"
    THEN [fs EXCEPT !.untracked = TRUE]
    ELSE [fs EXCEPT !.staged = (@ \/ (x # " " /\ x # "?")),
                    !.unstaged = (@ \/ (y # " " /\ y # "?"))]

\* The body of the loop of getChangedFiles: acc holds the records of the
\* paths seen so far, in the order of their first line.
statusLine(acc, line) ==
    IF Len(line) < 4 THEN acc
    ELSE LET x    == line[1]
             y    == line[2]
             rest == SubSeq(line, 4, Len(line))
             idx  == Index(rest, arrow)
             path == IF idx # -1 THEN SubSeq(rest, idx + 5, Len(rest))
                     ELSE rest
             seen == {i \in 1..Len(acc) : acc[i].path = path}
         IN IF seen = {}
            THEN Append(acc, setFlags([path |-> path, staged |-> FALSE,
                                       unstaged |-> FALSE,
                                       untracked |-> FALSE], x, y))
            ELSE LET i == CHOOSE k \in seen : TRUE IN
                 [acc EXCEPT ![i] = setFlags(@, x, y)]

RECURSIVE statusLines(_, _)
statusLines(lines, n) ==
    IF n = 0 THEN <<>> ELSE statusLine(statusLines(lines, n - 1), lines[n])

\* getChangedFiles; run is what exec.Command(...).Output() returned,
\* [err, out].
getChangedFiles(run) ==
    IF run.err THEN [err |-> TRUE, files |-> <<>>]
    ELSE LET lines == splitLines(trimRightNewlines(run.out)) IN
         [err |-> FALSE, files |-> statusLines(lines, Len(lines))]

(***************************************************************************)
(* Diff rendering.  A rune is one element of a string; the runes outside   *)
(* ASCII are written "<ellipsis>" (U+2026) and "<rule>" (U+2500).  A style *)
(* is named after its variable: "ctx", "delBg", "addBg", "del", "add".     *)
(***************************************************************************)
sideBySideMinWidth == 120

numW == 4

RECURSIVE expandTabs(_)
expandTabs(s) ==
    IF \A i \in 1..Len(s) : s[i] # "\t" THEN s
    ELSE LET i == CHOOSE k \in 1..Len(s) :
                      s[k] = "\t" /\ \A j \in 1..(k - 1) : s[j] # "\t"
         IN SubSeq(s, 1, i - 1) \o <<" ", " ", " ", " ">>
            \o expandTabs(SubSeq(s, i + 1, Len(s)))

RECURSIVE trimLine(_)
trimLine(s) ==
    IF s # <<>> /\ s[Len(s)] \in {"\n", "\r"}
    THEN trimLine(SubSeq(s, 1, Len(s) - 1))
    ELSE s

\* truncStr keeping w runes before the ellipsis.
truncStrLong(s, w) ==
    IF Len(s) <= w THEN s
    ELSE IF w <= 1 THEN <<"<ellipsis>">>
    ELSE SubSeq(s, 1, w) \o <<"<ellipsis>">>

truncStr(s, w) ==
    IF Len(s) <= w THEN s
    ELSE IF w <= 1 THEN <<"<ellipsis>">>
    ELSE SubSeq(s, 1, w - 1) \o <<"<ellipsis>">>

padStr(s, w) ==
    IF Len(s) >= w THEN s
    ELSE s \o [i \in 1..(w - Len(s)) |-> " "]

fitStr(s, w) == padStr(truncStr(s, w), w)

\* groupLines opening a group for every line.
groupLinesSingly(lines) ==
    [i \in 1..Len(lines) |->
        [op |-> lines[i].Op, lines |-> <<expandTabs(trimLine(lines[i].Line))>>]]

\* groupLines: the lines are [Op, Line] records, Op one of "ctx", "del",
\* "add" (gitdiff.OpContext, OpDelete, OpAdd).
RECURSIVE groupLines(_)
groupLines(lines) ==
    IF lines = <<>> THEN <<>>
    ELSE LET groups == groupLines(SubSeq(lines, 1, Len(lines) - 1))
             l      == lines[Len(lines)]
             text   == expandTabs(trimLine(l.Line))
             n      == Len(groups)
         IN IF n > 0 /\ groups[n].op = l.Op
            THEN [groups EXCEPT ![n].lines = Append(@, text)]
            ELSE Append(groups, [op |-> l.Op, lines |-> <<text>>])

\* A line-number column of emitRow: the number, or blanks when it is not > 0.
numCol(n) ==
    IF n > 0 THEN [shown |-> TRUE, n |-> n] ELSE [shown |-> FALSE, n |-> 0]

emitRow(lNum, lText, lSty, rNum, rText, rSty, colW) ==
    [lNum |-> numCol(lNum), lCell |-> fitStr(lText, colW), lSty |-> lSty,
     rNum |-> numCol(rNum), rCell |-> fitStr(rText, colW), rSty |-> rSty]

\* case gitdiff.OpContext
contextRows(lines, oldNum, newNum, colW) ==
    [j \in 1..Len(lines) |->
        emitRow(oldNum + j - 1, lines[j], "ctx",
                newNum + j - 1, lines[j], "ctx", colW)]

\* pairedRows keeping the tint on the rows past the shorter side.
pairedRowsTinted(del, add, oldNum, newNum, colW) ==
    LET maxLen == IF Len(add) > Len(del) THEN Len(add) ELSE Len(del) IN
    [j \in 1..maxLen |->
        emitRow(IF j <= Len(del) THEN oldNum + j - 1 ELSE 0,
                IF j <= Len(del) THEN del[j] ELSE <<>>,
                "delBg",
                IF j <= Len(add) THEN newNum + j - 1 ELSE 0,
                IF j <= Len(add) THEN add[j] ELSE <<>>,
                "addBg",
                colW)]

\* pairedRows numbering the right side by the old counter.
pairedRowsOldCounter(del, add, oldNum, newNum, colW) ==
    LET maxLen == IF Len(add) > Len(del) THEN Len(add) ELSE Len(del) IN
    [j \in 1..maxLen |->
        emitRow(IF j <= Len(del) THEN oldNum + j - 1 ELSE 0,
                IF j <= Len(del) THEN del[j] ELSE <<>>,
                IF j <= Len(del) THEN "delBg" ELSE "ctx",
                IF j <= Len(add) THEN oldNum + j - 1 ELSE 0,
                IF j <= Len(add) THEN add[j] ELSE <<>>,
                IF j <= Len(add) THEN "addBg" ELSE "ctx",
                colW)]

\* case gitdiff.OpDelete: the rows of a delete group and of the add group
\* paired with it (add is empty when addGroup is nil).
pairedRows(del, add, oldNum, newNum, colW) ==
    LET maxLen == IF Len(add) > Len(del) THEN Len(add) ELSE Len(del) IN
    [j \in 1..maxLen |->
        emitRow(IF j <= Len(del) THEN oldNum + j - 1 ELSE 0,
                IF j <= Len(del) THEN del[j] ELSE <<>>,
                IF j <= Len(del) THEN "delBg" ELSE "ctx",
                IF j <= Len(add) THEN newNum + j - 1 ELSE 0,
                IF j <= Len(add) THEN add[j] ELSE <<>>,
                IF j <= Len(add) THEN "addBg" ELSE "ctx",
                colW)]

\* loneAddRows tinting the empty left cell as well.
loneAddRowsTinted(lines, newNum, colW) ==
    [j \in 1..Len(lines) |->
        emitRow(0, <<>>, "addBg", newNum + j - 1, lines[j], "addBg", colW)]

\* case gitdiff.OpAdd: an add group not consumed by a delete group
loneAddRows(lines, newNum, colW) ==
    [j \in 1..Len(lines) |->
        emitRow(0, <<>>, "ctx", newNum + j - 1, lines[j], "addBg", colW)]

\* The loop over the groups from groups[i] (1-based) on.
RECURSIVE sideBySideFrom(_, _, _, _, _)
sideBySideFrom(groups, i, oldNum, newNum, colW) ==
    IF i > Len(groups) THEN <<>>
    ELSE LET g == groups[i] IN
         CASE g.op = "ctx" ->
                  contextRows(g.lines, oldNum, newNum, colW)
                  \o sideBySideFrom(groups, i + 1, oldNum + Len(g.lines),
                                    newNum + Len(g.lines), colW)
           [] g.op = "del" ->
                  LET paired == i + 1 <= Len(groups)
                                    /\ groups[i + 1].op = "add"
                      add    == IF paired THEN groups[i + 1].lines ELSE <<>>
                  IN pairedRows(g.lines, add, oldNum, newNum, colW)
                     \o sideBySideFrom(groups,
                                       IF paired THEN i + 2 ELSE i + 1,
                                       oldNum + Len(g.lines),
                                       newNum + Len(add), colW)
           [] g.op = "add" ->
                  loneAddRows(g.lines, newNum, colW)
                  \o sideBySideFrom(groups, i + 1, oldNum,
                                    newNum + Len(g.lines), colW)

renderSideBySide(frag, w) ==
    LET colW == IF (w - 13) \div 2 < 10 THEN 10 ELSE (w - 13) \div 2 IN
    sideBySideFrom(groupLines(frag.Lines), 1, frag.OldPosition,
                   frag.NewPosition, colW)

\* The loop of renderUnified from frag.Lines[i] (1-based) on.  A number
\* column is printed whatever its value; an absent one is blank.
RECURSIVE unifiedFrom(_, _, _, _, _)
unifiedFrom(lines, i, oldNum, newNum, textW) ==
    IF i > Len(lines) THEN <<>>
    ELSE LET text  == truncStr(expandTabs(trimLine(lines[i].Line)), textW)
             blank == [shown |-> FALSE, n |-> 0]
         IN
         CASE lines[i].Op = "ctx" ->
                  <<[oldNum |-> [shown |-> TRUE, n |-> oldNum],
                     newNum |-> [shown |-> TRUE, n |-> newNum],
                     mark |-> " ", text |-> text, sty |-> "ctx"]>>
                  \o unifiedFrom(lines, i + 1, oldNum + 1, newNum + 1, textW)
           [] lines[i].Op = "del" ->
                  <<[oldNum |-> [shown |-> TRUE, n |-> oldNum],
                     newNum |-> blank,
                     mark |-> "-", text |-> text, sty |-> "del"]>>
                  \o unifiedFrom(lines, i + 1, oldNum + 1, newNum, textW)
           [] lines[i].Op = "add" ->
                  <<[oldNum |-> blank,
                     newNum |-> [shown |-> TRUE, n |-> newNum],
                     mark |-> "+", text |-> text, sty |-> "add"]>>
                  \o unifiedFrom(lines, i + 1, oldNum, newNum + 1, textW)

renderUnified(frag, w) ==
    LET textW == IF w - numW * 2 - 4 < 10 THEN 10 ELSE w - numW * 2 - 4 IN
    unifiedFrom(frag.Lines, 1, frag.OldPosition, frag.NewPosition, textW)

repeatRule(n) == [i \in 1..n |-> "<rule>"]

\* The header line of renderFileDiff.
fileHeader(f, w) ==
    LET name   == IF f.NewName = <<>> THEN f.OldName ELSE f.NewName
        header == <<"<rule>", "<rule>", " ">> \o name \o <<" ">>
        pad    == w - Len(header)
    IN IF pad > 0 THEN header \o repeatRule(pad) ELSE header

\* What renderFileDiff writes for one fragment.
fragmentLines(frag, w) ==
    (IF frag.Comment # <<>>
     THEN <<[kind |-> "hunkHdr", text |-> frag.Comment]>>
     ELSE <<>>)
    \o (IF w >= sideBySideMinWidth
        THEN LET rows == renderSideBySide(frag, w) IN
             [j \in 1..Len(rows) |-> [kind |-> "sideBySide", row |-> rows[j]]]
        ELSE LET rows == renderUnified(frag, w) IN
             [j \in 1..Len(rows) |-> [kind |-> "unified", row |-> rows[j]]])

RECURSIVE fragmentsFrom(_, _, _)
fragmentsFrom(frags, i, w) ==
    IF i > Len(frags) THEN <<>>
    ELSE fragmentLines(frags[i], w) \o fragmentsFrom(frags, i + 1, w)

\* renderFileDiff: the lines it appends to the builder.
renderFileDiff(f, w) ==
    <<[kind |-> "fileHdr", text |-> fileHeader(f, w)]>>
    \o (IF f.IsBinary
        THEN <<[kind |-> "binary"]>>
        ELSE fragmentsFrom(f.TextFragments, 1, w))

RECURSIVE filesFrom(_, _, _)
filesFrom(fs, i, w) ==
    IF i > Len(fs) THEN <<>>
    ELSE (IF i > 1 THEN <<[kind |-> "blank"]>> ELSE <<>>)
         \o renderFileDiff(fs[i], w) \o filesFrom(fs, i + 1, w)

\* renderDiff returning the rendering whenever files were parsed.
renderDiffIgnoringErr(raw, w, parse) ==
    LET wd == IF w <= 0 THEN 80 ELSE w IN
    IF Len(parse.files) = 0
    THEN [text |-> raw, lines |-> <<>>]
    ELSE [text |-> <<>>, lines |-> filesFrom(parse.files, 1, wd)]

\* renderDiff: the returned string is `text` followed by `lines`; parse is
\* what gitdiff.Parse returned for raw, [err, files].
renderDiff(raw, w, parse) ==
    LET wd == IF w <= 0 THEN 80 ELSE w IN
    IF parse.err \/ Len(parse.files) = 0
    THEN [text |-> raw, lines |-> <<>>]
    ELSE [text |-> <<>>, lines |-> filesFrom(parse.files, 1, wd)]

(***************************************************************************)
(* Initial state: main builds the file list (never empty, without          *)
(* duplicates) and initialModel the model.                                 *)
(***************************************************************************)
fileStatus(p) ==
    [path |-> p, staged |-> FALSE, unstaged |-> TRUE, untracked |-> FALSE]

\* The lists of up to MaxFiles distinct paths of the pool.
FileLists ==
    UNION {{fs \in [1..n -> PathPool] :
               \A i, j \in 1..n : i # j => fs[i] # fs[j]} : n \in 1..MaxFiles}

initialModel(fs) ==
    LET lines == flattenTree(buildTree(fs), 0)
        flt   == filterIndices(fs, lines, <<>>)
    IN /\ files = fs
       /\ allLines = lines
       /\ filtered = flt
       /\ cursor = firstFile(lines, flt, clampCursor(0, Len(flt)))
       /\ scroll = 0
       /\ searching = FALSE
       /\ query = <<>>
       /\ width = 0
       /\ height = 0
       /\ treeW = 0
       /\ ready = FALSE
       /\ vpWidth = 0
       /\ vpHeight = 0
       /\ vpContent = 0

Init ==
    /\ \E ps \in FileLists :
           initialModel([i \in 1..Len(ps) |-> fileStatus(ps[i])])
    /\ cmd = nilCmd
    /\ proc = "browser"
    /\ inflight = {}
    /\ newest = 0
    /\ out = noOut

(***************************************************************************)
(* model.Update, one action per case.                                      *)
(***************************************************************************)
layout == <<width, height, treeW, ready, vpWidth, vpHeight>>

\* case tea.KeyMsg, m.searching, "enter"
SearchEnter ==
    /\ proc = "browser" /\ searching
    /\ searching' = FALSE
    /\ cursor' = firstFile(allLines, filtered, cursor)
    /\ cmd' = loadPreview(allLines, filtered, cursor', width, treeW)
    /\ UNCHANGED <<files, allLines, filtered, scroll, query, layout,
                   vpContent, proc>>

\* The esc case of search mode leaving the query as typed, as enter does.
SearchEscKeepsQuery ==
    /\ proc = "browser" /\ searching
    /\ searching' = FALSE
    /\ cmd' = loadPreview(allLines, filtered, cursor, width, treeW)
    /\ UNCHANGED <<files, allLines, filtered, cursor, scroll, query, layout,
                   vpContent, proc>>

\* case tea.KeyMsg, m.searching, "esc"
SearchEsc ==
    /\ proc = "browser" /\ searching
    /\ searching' = FALSE
    /\ query' = <<>>
    /\ updateFilter
    /\ cmd' = loadPreview(allLines, filtered', cursor', width, treeW)
    /\ UNCHANGED <<files, allLines, scroll, layout, vpContent, proc>>

\* case tea.KeyMsg, m.searching, "backspace"
SearchBackspace ==
    /\ proc = "browser" /\ searching
    /\ IF Len(query) > 0
       THEN /\ query' = SubSeq(query, 1, Len(query) - 1)
            /\ updateFilter
       ELSE UNCHANGED <<query, filtered, cursor>>
    /\ cmd' = nilCmd
    /\ UNCHANGED <<files, allLines, scroll, searching, layout, vpContent,
                   proc>>

\* case tea.KeyMsg, m.searching, default
SearchDefault(k) ==
    /\ proc = "browser" /\ searching
    /\ k \notin {"enter", "esc", "backspace"}
    /\ IF k \in SingleChar
       THEN /\ Len(query) < MaxQueryLen
            /\ query' = Append(query, k)
            /\ updateFilter
       ELSE UNCHANGED <<query, filtered, cursor>>
    /\ cmd' = nilCmd
    /\ UNCHANGED <<files, allLines, scroll, searching, layout, vpContent,
                   proc>>

\* The quit case returning without tea.Quit.
KeyQuitIgnored(k) ==
    /\ proc = "browser" /\ ~searching
    /\ k \in {"q", "ctrl+c"}
    /\ cmd' = nilCmd
    /\ UNCHANGED <<files, allLines, filtered, cursor, scroll, searching,
                   query, layout, vpContent, proc>>

\* case "q", "ctrl+c"
KeyQuit(k) ==
    /\ proc = "browser" /\ ~searching
    /\ k \in {"q", "ctrl+c"}
    /\ cmd' = quitCmd
    /\ proc' = "quit"
    /\ UNCHANGED <<files, allLines, filtered, cursor, scroll, searching,
                   query, layout, vpContent>>

\* case "esc"
KeyEsc ==
    /\ proc = "browser" /\ ~searching
    /\ IF query # <<>>
       THEN /\ query' = <<>>
            /\ updateFilter
            /\ cmd' = loadPreview(allLines, filtered', cursor', width, treeW)
            /\ UNCHANGED proc
       ELSE /\ cmd' = quitCmd
            /\ proc' = "quit"
            /\ UNCHANGED <<query, filtered, cursor>>
    /\ UNCHANGED <<files, allLines, scroll, searching, layout, vpContent>>

\* case "up", "k" (delta -1) and case "down", "j" (delta 1)
KeyMove(delta) ==
    /\ proc = "browser" /\ ~searching
    /\ moveCursor(delta)
    /\ cmd' = IF cursor' # cursor
              THEN loadPreview(allLines, filtered, cursor', width, treeW)
              ELSE nilCmd
    /\ UNCHANGED <<files, allLines, filtered, searching, query, layout,
                   vpContent, proc>>

KeyUp == KeyMove(-1)

KeyDown == KeyMove(1)

\* case "enter": the full diff is piped to less, which holds the terminal
\* until it exits.
KeyEnter ==
    /\ proc = "browser" /\ ~searching
    /\ cmd' = openFullDiff(allLines, filtered, cursor)
    /\ proc' = IF cmd'.kind = "exec" THEN "less" ELSE "browser"
    /\ UNCHANGED <<files, allLines, filtered, cursor, scroll, searching,
                   query, layout, vpContent>>

\* case "/"
KeySlash ==
    /\ proc = "browser" /\ ~searching
    /\ searching' = TRUE
    /\ query' = <<>>
    /\ cmd' = nilCmd
    /\ UNCHANGED <<files, allLines, filtered, cursor, scroll, layout,
                   vpContent, proc>>

\* any other key outside search mode falls through the switch
KeyOther(k) ==
    /\ proc = "browser" /\ ~searching
    /\ k \notin {"q", "ctrl+c", "esc", "up", "k", "down", "j", "enter", "/"}
    /\ cmd' = nilCmd
    /\ UNCHANGED <<files, allLines, filtered, cursor, scroll, searching,
                   query, layout, vpContent, proc>>

\* The resize case taking the tree back to its top.
WindowSizeScrollsToTop(w, h) ==
    /\ proc = "browser"
    /\ width' = w
    /\ height' = h
    /\ treeW' = LET t == (w * 30) \div 100 IN
                IF t < 30 THEN 30 ELSE IF t > 50 THEN 50 ELSE t
    /\ vpWidth' = IF w - treeW' - 1 < 20 THEN 20 ELSE w - treeW' - 1
    /\ vpHeight' = h
    /\ ready' = TRUE
    /\ scroll' = 0
    /\ cmd' = loadPreview(allLines, filtered, cursor, width', treeW')
    /\ UNCHANGED <<files, allLines, filtered, cursor, searching, query,
                   vpContent, proc>>

\* case tea.WindowSizeMsg
WindowSize(w, h) ==
    /\ proc = "browser"
    /\ width' = w
    /\ height' = h
    /\ treeW' = LET t == (w * 30) \div 100 IN
                IF t < 30 THEN 30 ELSE IF t > 50 THEN 50 ELSE t
    /\ vpWidth' = IF w - treeW' - 1 < 20 THEN 20 ELSE w - treeW' - 1
    /\ vpHeight' = h
    /\ ready' = TRUE
    /\ cmd' = loadPreview(allLines, filtered, cursor, width', treeW')
    /\ UNCHANGED <<files, allLines, filtered, cursor, scroll, searching,
                   query, vpContent, proc>>

\* case diffLoadedMsg: the content is the rendered diff of file f (0: blank)
DiffLoaded(f) ==
    /\ proc = "browser"
    /\ vpContent' = f
    /\ cmd' = nilCmd
    /\ UNCHANGED <<files, allLines, filtered, cursor, scroll, searching,
                   query, layout, proc>>

\* case execFinishedMsg: less has exited
ExecFinished ==
    /\ proc = "less"
    /\ proc' = "browser"
    /\ cmd' = loadPreview(allLines, filtered, cursor, width, treeW)
    /\ UNCHANGED <<files, allLines, filtered, cursor, scroll, searching,
                   query, layout, vpContent>>

\* The commands are not followed here: the preview loads in flight are not
\* recorded and a diffLoadedMsg may carry the diff of any file.
idle == UNCHANGED <<inflight, newest, out>>

Next ==
    \/ SearchEnter /\ idle
    \/ SearchEsc /\ idle
    \/ SearchBackspace /\ idle
    \/ \E k \in Keys : SearchDefault(k) /\ idle
    \/ \E k \in Keys : KeyQuit(k) /\ idle
    \/ KeyEsc /\ idle
    \/ KeyUp /\ idle
    \/ KeyDown /\ idle
    \/ KeyEnter /\ idle
    \/ KeySlash /\ idle
    \/ \E k \in Keys : KeyOther(k) /\ idle
    \/ \E w \in Widths, h \in Heights : WindowSize(w, h) /\ idle
    \/ \E f \in 0..Len(files) : DiffLoaded(f) /\ idle
    \/ ExecFinished /\ idle

Spec == Init /\ [][Next]_vars

(***************************************************************************)
(* The tree and the filter applied alone: initialModel builds the lines,   *)
(* then updateFilter runs with an arbitrary query.                         *)
(***************************************************************************)
RECURSIVE stringsUpTo(_)
stringsUpTo(n) ==
    IF n = 0 THEN {<<>>}
    ELSE LET shorter == stringsUpTo(n - 1) IN
         shorter \cup {Append(s, c) : s \in shorter, c \in QueryChars}

Queries == stringsUpTo(MaxQueryLen)

ApplyFilter(q) ==
    /\ query' = q
    /\ updateFilter
    /\ UNCHANGED <<files, allLines, scroll, searching, layout, vpContent,
                   cmd, proc, inflight, newest, out>>

FilterNext == \E q \in Queries : ApplyFilter(q)

FilterSpec == Init /\ [][FilterNext]_vars

(***************************************************************************)
(* The program from the start of main: the listing command may fail, and   *)
(* so may the diff command of a preview load.  A failed diff command's     *)
(* output, the message of git, is written as the negated file index.       *)
(***************************************************************************)
ListResults ==
    {[err |-> TRUE, files |-> <<>>], [err |-> FALSE, files |-> <<>>]}
    \cup {[err |-> FALSE,
           files |-> [i \in 1..Len(ps) |-> fileStatus(ps[i])]] :
              ps \in FileLists}

MainInit ==
    /\ files = <<>>
    /\ allLines = <<>>
    /\ filtered = <<>>
    /\ cursor = 0
    /\ scroll = 0
    /\ searching = FALSE
    /\ query = <<>>
    /\ width = 0
    /\ height = 0
    /\ treeW = 0
    /\ ready = FALSE
    /\ vpWidth = 0
    /\ vpHeight = 0
    /\ vpContent = 0
    /\ cmd = nilCmd
    /\ proc = "main"
    /\ inflight = {}
    /\ newest = 0
    /\ out = noOut

\* main, up to the start of the program; r is what getChangedFiles (or
\* getMainFiles) returned.
Main(r) ==
    /\ proc = "main"
    /\ IF r.err
       THEN /\ proc' = "exit 1"
            /\ UNCHANGED <<files, allLines, filtered, cursor>>
       ELSE IF Len(r.files) = 0
       THEN /\ proc' = "no changes"
            /\ UNCHANGED <<files, allLines, filtered, cursor>>
       ELSE LET lines == flattenTree(buildTree(r.files), 0)
                flt   == filterIndices(r.files, lines, <<>>)
            IN /\ proc' = "browser"
               /\ files' = r.files
               /\ allLines' = lines
               /\ filtered' = flt
               /\ cursor' = firstFile(lines, flt, clampCursor(0, Len(flt)))
    /\ UNCHANGED <<scroll, searching, query, layout, vpContent, cmd>>

\* The diffLoadedMsg of a preview load whose diff command failed:
\* getDiffOutput returns the command's combined output whatever its error.
DiffFailed(f) ==
    /\ proc = "browser"
    /\ vpContent' = 0 - f
    /\ cmd' = nilCmd
    /\ UNCHANGED <<files, allLines, filtered, cursor, scroll, searching,
                   query, layout, proc>>

MainNext ==
    \/ \E r \in ListResults : Main(r) /\ idle
    \/ SearchEnter /\ idle
    \/ SearchEsc /\ idle
    \/ SearchBackspace /\ idle
    \/ \E k \in Keys : SearchDefault(k) /\ idle
    \/ \E k \in Keys : KeyQuit(k) /\ idle
    \/ KeyEsc /\ idle
    \/ KeyUp /\ idle
    \/ KeyDown /\ idle
    \/ KeyEnter /\ idle
    \/ KeySlash /\ idle
    \/ \E k \in Keys : KeyOther(k) /\ idle
    \/ \E w \in Widths, h \in Heights : WindowSize(w, h) /\ idle
    \/ \E f \in 0..Len(files) : DiffLoaded(f) /\ idle
    \/ \E f \in 1..Len(files) : DiffFailed(f) /\ idle
    \/ ExecFinished /\ idle

MainSpec == MainInit /\ [][MainNext]_vars

(***************************************************************************)
(* The diff renderer on its own: the initial state draws one call of one   *)
(* rendering function, the action applies the function to it.              *)
(***************************************************************************)
MaxFitLen == 3

MaxFitW == 4

MaxHunkLines == 3

RECURSIVE seqsUpTo(_, _)
seqsUpTo(S, n) ==
    IF n = 0 THEN {<<>>}
    ELSE LET shorter == seqsUpTo(S, n - 1) IN
         shorter \cup {Append(s, x) : s \in shorter, x \in S}

FitTexts == seqsUpTo({"a", "b"}, MaxFitLen)

LongLine == <<"\t">> \o [i \in 1..50 |-> "x"] \o <<"\r", "\n">>

DiffLines ==
    [Op : {"ctx"}, Line : {<<"b", "a", "r", "\n">>, LongLine}]
    \cup [Op : {"del"},
          Line : {<<"f", "o", "o", "\n">>, <<"b", "a", "r", "\n">>}]
    \cup [Op : {"add"}, Line : {<<"f", "o", "o", "2", "\n">>, LongLine}]

HunkLines == seqsUpTo(DiffLines, MaxHunkLines)

hasOld(ls) == \E i \in 1..Len(ls) : ls[i].Op \in {"ctx", "del"}

hasNew(ls) == \E i \in 1..Len(ls) : ls[i].Op \in {"ctx", "add"}

\* A hunk header gives position 0 only to a side that has no lines.
Positions(ls) ==
    {<<1, 1>>, <<3, 5>>}
        \cup (IF hasOld(ls) THEN {} ELSE {<<0, 1>>})
        \cup (IF hasNew(ls) THEN {} ELSE {<<1, 0>>})

Fragments ==
    {[OldPosition |-> p[1], NewPosition |-> p[2], Comment |-> <<>>,
      Lines |-> ls] : <<ls, p>> \in {<<l, q>> \in HunkLines \X
                          {<<1, 1>>, <<3, 5>>, <<0, 1>>, <<1, 0>>} :
                          q \in Positions(l)}}

SideBySideWidths == {120, 121}

UnifiedWidths == {20, 119}

LongName == [i \in 1..40 |-> IF i % 5 = 0 THEN "/" ELSE "d"]

hunkA ==
    [OldPosition |-> 1, NewPosition |-> 1, Comment |-> <<"f", "n">>,
     Lines |-> <<[Op |-> "del", Line |-> <<"f", "o", "o", "\n">>],
                 [Op |-> "add", Line |-> <<"b", "a", "r", "\n">>]>>]

hunkB ==
    [OldPosition |-> 7, NewPosition |-> 7, Comment |-> <<>>,
     Lines |-> <<[Op |-> "ctx", Line |-> LongLine]>>]

DiffFiles ==
    [OldName : {<<"a">>}, NewName : {<<>>, <<"a">>, <<"a", "/", "b">>, LongName},
     IsBinary : {FALSE}, TextFragments : {<<>>, <<hunkA>>, <<hunkA, hunkB>>}]
    \cup [OldName : {<<"a">>}, NewName : {<<"a">>}, IsBinary : {TRUE},
          TextFragments : {<<>>}]

FileWidths == {7, 8, 40, 44, 45, 80, 120}

RawTexts == {<<>>, <<"x", "\n">>, <<"d", "i", "f", "f", "\n">>}

ParsedFiles ==
    LET fa == [OldName |-> <<"a">>, NewName |-> <<"a">>, IsBinary |-> FALSE,
               TextFragments |-> <<hunkA>>]
        fb == [OldName |-> <<"a">>, NewName |-> <<"a", "/", "b">>,
               IsBinary |-> TRUE, TextFragments |-> <<>>]
    IN {<<>>, <<fa>>, <<fb>>, <<fa, fb>>}

DiffWidths == {-1, 0, 40, 120}

call(op, arg) == [op |-> op, arg |-> arg, done |-> FALSE, res |-> <<>>]

RenderCalls ==
    {call("fitStr", [s |-> s, w |-> w]) : s \in FitTexts, w \in 0..MaxFitW}
    \cup {call("renderSideBySide", [frag |-> fr, width |-> w]) :
              fr \in Fragments, w \in SideBySideWidths}
    \cup {call("renderUnified", [frag |-> fr, width |-> w]) :
              fr \in Fragments, w \in UnifiedWidths}
    \cup {call("groupLines", [lines |-> ls]) : ls \in HunkLines}
    \cup {call("renderFileDiff", [f |-> f, width |-> w]) :
              f \in DiffFiles, w \in FileWidths}
    \cup {call("renderDiff", [raw |-> r, width |-> w,
                              parse |-> [err |-> e, files |-> fs]]) :
              r \in RawTexts, w \in DiffWidths, e \in BOOLEAN,
              fs \in ParsedFiles}

RenderInit ==
    /\ initialModel(<<fileStatus(<<"a">>)>>)
    /\ cmd = nilCmd
    /\ proc = "browser"
    /\ inflight = {}
    /\ newest = 0
    /\ out \in RenderCalls

FitStr ==
    /\ out.op = "fitStr" /\ ~out.done
    /\ out' = [out EXCEPT !.done = TRUE,
                          !.res = fitStr(out.arg.s, out.arg.w)]
    /\ UNCHANGED <<nav, inflight, newest>>

GroupLines ==
    /\ out.op = "groupLines" /\ ~out.done
    /\ out' = [out EXCEPT !.done = TRUE, !.res = groupLines(out.arg.lines)]
    /\ UNCHANGED <<nav, inflight, newest>>

RenderSideBySide ==
    /\ out.op = "renderSideBySide" /\ ~out.done
    /\ out' = [out EXCEPT !.done = TRUE,
                          !.res = renderSideBySide(out.arg.frag,
                                                   out.arg.width)]
    /\ UNCHANGED <<nav, inflight, newest>>

RenderUnified ==
    /\ out.op = "renderUnified" /\ ~out.done
    /\ out' = [out EXCEPT !.done = TRUE,
                          !.res = renderUnified(out.arg.frag, out.arg.width)]
    /\ UNCHANGED <<nav, inflight, newest>>

RenderFileDiff ==
    /\ out.op = "renderFileDiff" /\ ~out.done
    /\ out' = [out EXCEPT !.done = TRUE,
                          !.res = renderFileDiff(out.arg.f, out.arg.width)]
    /\ UNCHANGED <<nav, inflight, newest>>

RenderDiff ==
    /\ out.op = "renderDiff" /\ ~out.done
    /\ out' = [out EXCEPT !.done = TRUE,
                          !.res = renderDiff(out.arg.raw, out.arg.width,
                                             out.arg.parse)]
    /\ UNCHANGED <<nav, inflight, newest>>

RenderNext ==
    \/ FitStr
    \/ GroupLines
    \/ RenderSideBySide
    \/ RenderUnified
    \/ RenderFileDiff
    \/ RenderDiff

RenderSpec == RenderInit /\ [][RenderNext]_vars

(***************************************************************************)
(* getChangedFiles on its own: the initial state draws the entries git     *)
(* status reports (each path once) and whether the command failed.         *)
(***************************************************************************)
MaxStatusLines == 3

StatusCodes ==
    {<<" ", "M">>, <<"M", " ">>, <<"M", "M">>, <<"?", "?">>, <<"A", " ">>,
     <<" ", "D">>}

StatusPaths ==
    {<<"a", ".", "g", "o">>, <<"b", ".", "t", "x", "t">>,
     <<"c", "/", "d", ".", "g", "o">>}

StatusEntries ==
    [xy : StatusCodes, from : {<<>>}, path : StatusPaths]
    \cup [xy : {<<"R", " ">>, <<"R", "M">>}, from : {<<"o">>},
          path : {<<"b", ".", "t", "x", "t">>}]

StatusLists ==
    {es \in seqsUpTo(StatusEntries, MaxStatusLines) :
         \A i, j \in 1..Len(es) : i # j => es[i].path # es[j].path}

\* One line of the porcelain format: XY, a space, the path, for a rename
\* the old path and an arrow before it.
porcelainLine(e) ==
    e.xy \o <<" ">>
    \o (IF e.from = <<>> THEN <<>> ELSE e.from \o arrow)
    \o e.path \o <<"\n">>

RECURSIVE porcelain(_)
porcelain(es) ==
    IF es = <<>> THEN <<>> ELSE porcelainLine(Head(es)) \o porcelain(Tail(es))

StatusCalls ==
    {call("getChangedFiles", [entries |-> es, err |-> e]) :
         es \in StatusLists, e \in BOOLEAN}

StatusInit ==
    /\ initialModel(<<fileStatus(<<"a">>)>>)
    /\ cmd = nilCmd
    /\ proc = "browser"
    /\ inflight = {}
    /\ newest = 0
    /\ out \in StatusCalls

GetChangedFiles ==
    /\ out.op = "getChangedFiles" /\ ~out.done
    /\ out' = [out EXCEPT
                 !.done = TRUE,
                 !.res = getChangedFiles(
                             [err |-> out.arg.err,
                              out |-> IF out.arg.err THEN <<>>
                                      ELSE porcelain(out.arg.entries)])]
    /\ UNCHANGED <<nav, inflight, newest>>

StatusNext == GetChangedFiles

StatusSpec == StatusInit /\ [][StatusNext]_vars

(***************************************************************************)
(* The browser with its preview loads followed: inflight holds the files   *)
(* whose loadPreview command has been started and whose diffLoadedMsg has  *)
(* not been delivered yet, newest the file of the last one started.  The   *)
(* runtime runs each command on its own, so the results arrive in any      *)
(* order.                                                                  *)
(***************************************************************************)
launch ==
    /\ inflight' = IF cmd'.kind = "loadPreview"
                   THEN inflight \cup {cmd'.file} ELSE inflight
    /\ newest' = IF cmd'.kind = "loadPreview" THEN cmd'.file ELSE newest
    /\ UNCHANGED out

Deliver(f) ==
    /\ DiffLoaded(f)
    /\ inflight' = inflight \ {f}
    /\ UNCHANGED <<newest, out>>

PreviewNext ==
    \/ SearchEnter /\ launch
    \/ SearchEsc /\ launch
    \/ SearchBackspace /\ launch
    \/ \E k \in Keys : SearchDefault(k) /\ launch
    \/ \E k \in Keys : KeyQuit(k) /\ launch
    \/ KeyEsc /\ launch
    \/ KeyUp /\ launch
    \/ KeyDown /\ launch
    \/ KeyEnter /\ launch
    \/ KeySlash /\ launch
    \/ \E k \in Keys : KeyOther(k) /\ launch
    \/ \E w \in Widths, h \in Heights : WindowSize(w, h) /\ launch
    \/ \E f \in inflight : Deliver(f)
    \/ ExecFinished /\ launch

PreviewSpec == Init /\ [][PreviewNext]_vars

(***************************************************************************)
(* The browser on terminals of every height.  View (src/main.go:1903-1921) *)
(* draws the tree after every Update once the size is known; renderTree    *)
(* reads the state and changes nothing, so what it reads is given as a     *)
(* function of the state.  The steps are those of Update, with the heights *)
(* of a resize drawn from ViewHeights as well: a height of two, which like *)
(* every smaller one leaves one visible line.                              *)
(***************************************************************************)
ViewHeights == {2}

\* renderTree: the values of i for which the loop reads m.filtered[i] and
\* m.allLines[m.filtered[i]].
renderTreeReadsUnclamped(sc, h, flt) ==
    LET visibleH == IF h - 2 < 1 THEN 1 ELSE h - 2
    IN sc .. (sc + visibleH - 1)

renderTreeReads(sc, h, flt) ==
    LET visibleH == IF h - 2 < 1 THEN 1 ELSE h - 2
        end      == IF sc + visibleH > Len(flt) THEN Len(flt)
                    ELSE sc + visibleH
    IN sc .. (end - 1)

\* selectedFile: the index of m.filtered it reads, if any.
selectedFileReads(flt, c) ==
    IF c >= 0 /\ c < Len(flt) THEN {c} ELSE {}

ViewNext ==
    \/ SearchEnter /\ idle
    \/ SearchEsc /\ idle
    \/ SearchBackspace /\ idle
    \/ \E k \in Keys : SearchDefault(k) /\ idle
    \/ \E k \in Keys : KeyQuit(k) /\ idle
    \/ KeyEsc /\ idle
    \/ KeyUp /\ idle
    \/ KeyDown /\ idle
    \/ KeyEnter /\ idle
    \/ KeySlash /\ idle
    \/ \E k \in Keys : KeyOther(k) /\ idle
    \/ \E w \in Widths, h \in Heights \cup ViewHeights :
           WindowSize(w, h) /\ idle
    \/ \E f \in 0..Len(files) : DiffLoaded(f) /\ idle
    \/ ExecFinished /\ idle

ViewSpec == Init /\ [][ViewNext]_vars

(***************************************************************************)
(* The browser on terminals of every width: the steps of Update, with the  *)
(* widths of a resize drawn from ResizeWidths as well.  Of these 60 gives  *)
(* a tree pane at its lower bound and fewer than 40 columns beside it, 71  *)
(* exactly 40 columns beside it, 120 a tree pane between its bounds and    *)
(* 200 one at its upper bound.                                             *)
(***************************************************************************)
ResizeWidths == {60, 71, 120, 200}

ResizeNext ==
    \/ SearchEnter /\ idle
    \/ SearchEsc /\ idle
    \/ SearchBackspace /\ idle
    \/ \E k \in Keys : SearchDefault(k) /\ idle
    \/ \E k \in Keys : KeyQuit(k) /\ idle
    \/ KeyEsc /\ idle
    \/ KeyUp /\ idle
    \/ KeyDown /\ idle
    \/ KeyEnter /\ idle
    \/ KeySlash /\ idle
    \/ \E k \in Keys : KeyOther(k) /\ idle
    \/ \E w \in Widths \cup ResizeWidths, h \in Heights :
           WindowSize(w, h) /\ idle
    \/ \E f \in 0..Len(files) : DiffLoaded(f) /\ idle
    \/ ExecFinished /\ idle

ResizeSpec == Init /\ [][ResizeNext]_vars

(***************************************************************************)
(* Vocabulary of the properties.                                           *)
(***************************************************************************)
LineIdx == 0..(Len(allLines) - 1)

Line(i) == allLines[i + 1]

IsFileLine(i) == Line(i).file # 0

IsDirLine(i) == Line(i).file = 0

Visible(i) == \E k \in 1..Len(filtered) : filtered[k] = i

\* Directory line j lies on the path from the root to line i.
StrictAncestor(j, i) ==
    /\ j < i
    /\ IsDirLine(j)
    /\ \A k \in (j + 1)..i : Line(k).indent > Line(j).indent

\* s contains sub, letters compared without regard to case.
ContainsFold(s, sub) ==
    \E off \in 0..(Len(s) - Len(sub)) :
        \A k \in 1..Len(sub) : ToLowerChar(s[off + k]) = ToLowerChar(sub[k])

PathOf(i) == files[Line(i).file].path

Identity == [k \in 1..Len(allLines) |-> k - 1]

SlashCount(p) == Cardinality({k \in 1..Len(p) : p[k] = "/"})

\* The name of the node shown on line i (a directory label without its "/").
NodeName(i) ==
    IF IsDirLine(i) THEN SubSeq(Line(i).name, 1, Len(Line(i).name) - 1)
    ELSE Line(i).name

\* Lines i < j are children of the same node.
Siblings(i, j) ==
    /\ i < j
    /\ Line(i).indent = Line(j).indent
    /\ \A k \in i..j : Line(k).indent >= Line(i).indent

RECURSIVE SortedLevels(_)
SortedLevels(nodes) ==
    /\ \A i, j \in 1..Len(nodes) :
           i < j =>
               /\ nodes[i].file # 0 => nodes[j].file # 0
               /\ (nodes[i].file = 0) = (nodes[j].file = 0)
                      => StrLess(nodes[i].name, nodes[j].name)
    /\ \A i \in 1..Len(nodes) : SortedLevels(nodes[i].children)

(***************************************************************************)
(* Properties.                                                             *)
(***************************************************************************)

\* C1: in every reachable state `filtered` is the result of filtering
\* allLines with the current query; with an empty query it is 0..len-1.
C1_FilteredIsFilterOfQuery ==
    /\ filtered = filterIndices(files, allLines, query)
    /\ query = <<>> => filtered = Identity

\* C2: with a non-empty query, every visible directory line has a label that
\* contains the query (ignoring case) or is a strict ancestor of a visible
\* file line.
C2_DirsMatchOrAreAncestors ==
    query # <<>> =>
        \A d \in LineIdx :
            IsDirLine(d) /\ Visible(d) =>
                \/ ContainsFold(Line(d).name, query)
                \/ \E f \in LineIdx :
                       IsFileLine(f) /\ Visible(f) /\ StrictAncestor(d, f)

\* C3: with a non-empty query, every strict ancestor directory line of a
\* visible file line is visible, whether or not its name matches.
C3_AncestorsOfVisibleFilesVisible ==
    query # <<>> =>
        \A f \in LineIdx :
            IsFileLine(f) /\ Visible(f) =>
                \A d \in LineIdx : StrictAncestor(d, f) => Visible(d)

C3_Witness ==
    /\ query # <<>>
    /\ \E f, d \in LineIdx :
           /\ IsFileLine(f) /\ Visible(f) /\ Line(f).indent = 2
           /\ StrictAncestor(d, f) /\ Line(d).indent = 0
           /\ ~ContainsFold(Line(d).name, query)
           /\ Visible(d)

\* C4: with a non-empty query, the visible file lines are exactly the file
\* lines whose full path contains the query, ignoring case.
C4_VisibleFilesAreTheMatches ==
    query # <<>> =>
        \A f \in LineIdx :
            IsFileLine(f) => (Visible(f) <=> ContainsFold(PathOf(f), query))

C4_Witness ==
    /\ query # <<>>
    /\ \E f, g \in LineIdx :
           /\ IsFileLine(f) /\ Visible(f) /\ ~Contains(PathOf(f), query)
           /\ IsFileLine(g) /\ ~Visible(g)

\* C5: the visible index list is strictly increasing (document order, no
\* duplicates) and each element is a valid index into allLines.
C5_FilteredStrictlyIncreasing ==
    \A k \in 1..Len(filtered) :
        /\ filtered[k] \in LineIdx
        /\ k > 1 => filtered[k - 1] < filtered[k]

C5_Witness ==
    /\ query # <<>>
    /\ Len(filtered) >= 3
    /\ \E d \in LineIdx :
           /\ IsDirLine(d) /\ Visible(d)
           /\ ~ContainsFold(Line(d).name, query)

\* C6: filtering with the empty query yields every index 0..len-1 in order.
C6_EmptyQueryIsIdentity ==
    query = <<>> => filtered = Identity

\* The empty query applied after a query that had emptied the list: the
\* cursor rests on the first line, a directory header.
C6_Witness ==
    /\ query = <<>>
    /\ Len(filtered) >= 3
    /\ cursor = 0
    /\ IsDirLine(filtered[1])

\* C7: the flattened tree has exactly one file line per input path, which
\* refers to that path's record, at indent (number of segments) - 1.
C7_OneFileLinePerPath ==
    /\ \A f \in 1..Len(files) :
           Cardinality({i \in LineIdx : Line(i).file = f}) = 1
    /\ Cardinality({i \in LineIdx : IsFileLine(i)}) = Len(files)
    /\ \A i \in LineIdx :
           IsFileLine(i) => Line(i).indent = SlashCount(PathOf(i))

C7_Witness ==
    /\ Len(files) >= 2
    /\ \E i \in LineIdx : IsFileLine(i) /\ Line(i).indent = 2
    /\ \E i \in LineIdx : IsFileLine(i) /\ Line(i).indent = 0

\* C8: at every level of the built tree, and so among sibling lines of the
\* flattened list, directories precede files and names ascend within each
\* group; files B and a/b flatten to a/, b (indent 1), B.
C8_DirsFirstThenByName ==
    /\ SortedLevels(buildTree(files))
    /\ \A i, j \in LineIdx :
           Siblings(i, j) =>
               /\ IsFileLine(i) => IsFileLine(j)
               /\ IsDirLine(i) = IsDirLine(j)
                      => StrLess(NodeName(i), NodeName(j))
    /\ {files[k].path : k \in 1..Len(files)} = {<<"B">>, <<"a", "/", "b">>}
           => /\ Len(allLines) = 3
              /\ Line(0).name = <<"a", "/">> /\ Line(0).indent = 0
              /\ IsDirLine(0)
              /\ PathOf(1) = <<"a", "/", "b">> /\ Line(1).indent = 1
              /\ PathOf(2) = <<"B">> /\ Line(2).indent = 0

\* A directory listed before a sibling file whose name sorts before its own.
C8_Witness ==
    \E i, j \in LineIdx :
        /\ Siblings(i, j)
        /\ IsDirLine(i) /\ IsFileLine(j)
        /\ StrLess(NodeName(j), NodeName(i))

\* C9: the cursor is a valid position of a non-empty visible list, and 0
\* when the visible list is empty.
C9_CursorInRange ==
    /\ Len(filtered) > 0 => 0 <= cursor /\ cursor < Len(filtered)
    /\ Len(filtered) = 0 => cursor = 0

\* A query emptied the visible list after the cursor had been moved down.
C9_Witness ==
    /\ Len(filtered) = 0
    /\ cursor = 0
    /\ scroll > 0

\* C10: the tree scroll offset never exceeds the cursor index.
C10_ScrollAtMostCursor == scroll <= cursor

\* The number of tree rows the pane shows.
ViewportHeight == IF height - 2 < 1 THEN 1 ELSE height - 2

Clamp(x, lo, hi) == IF x < lo THEN lo ELSE IF x > hi THEN hi ELSE x

Abs(x) == IF x < 0 THEN 0 - x ELSE x

\* The value of lo..hi nearest to s.
Nearest(s, lo, hi) ==
    CHOOSE v \in lo..hi : \A u \in lo..hi : Abs(v - s) <= Abs(u - s)

\* C11: an up or down key on a non-empty visible list sets the cursor to
\* clamp(cursor + delta, 0, len - 1) and the scroll offset to the value
\* nearest its old one that keeps the cursor in the window; on an empty
\* visible list it changes neither.
C11_MoveCursorClampsAndScrollsMinimally ==
    [][\A d \in {-1, 1} :
          KeyMove(d) =>
              IF Len(filtered) = 0
              THEN cursor' = cursor /\ scroll' = scroll
              ELSE /\ cursor' = Clamp(cursor + d, 0, Len(filtered) - 1)
                   /\ scroll' = Nearest(scroll,
                                        cursor' - ViewportHeight + 1,
                                        cursor')]_vars

\* The cursor moved below a two-row window, which scrolled by one.
C11_Witness ==
    /\ ~searching
    /\ ViewportHeight = 2
    /\ scroll > 0
    /\ cursor = scroll + 1
    /\ cmd.kind = "loadPreview"

\* C12: enter in search mode ends search mode and puts the cursor on the
\* first file line of the visible list, so the selected line of a non-empty
\* visible list is then a file line.
C12_CommitSelectsFirstFile ==
    [][SearchEnter =>
          /\ ~searching'
          /\ Len(filtered') > 0 =>
                 /\ cursor' \in 0..(Len(filtered') - 1)
                 /\ IsFileLine(filtered'[cursor' + 1])
                 /\ \A k \in 1..cursor' : IsDirLine(filtered'[k])]_vars

\* A committed query whose visible list starts with a directory header.
C12_Witness ==
    /\ ~searching
    /\ query # <<>>
    /\ Len(filtered) >= 2
    /\ IsDirLine(filtered[1])
    /\ cursor > 0
    /\ IsFileLine(filtered[cursor + 1])
    /\ \A k \in 1..cursor : IsDirLine(filtered[k])
    /\ cmd.kind = "loadPreview" /\ cmd.file = Line(filtered[cursor + 1]).file

\* C13: esc clears the search when search mode is active or the visible list
\* is restricted by a search (full list, empty query, no quit), and quits
\* only when no search is in effect.
C13_EscClearsSearchElseQuits ==
    [][(SearchEsc \/ KeyEsc) =>
          IF searching \/ query # <<>> \/ filtered # Identity
          THEN /\ proc' = "browser"
               /\ ~searching'
               /\ query' = <<>>
               /\ filtered' = Identity
          ELSE proc' = "quit"]_vars

\* C14 as stated: the q key quits in every state of the browser.
C14_QAlwaysQuits ==
    [][(SearchDefault("q") \/ KeyQuit("q")) => proc' = "quit"]_vars

\* C14: the q key quits in every state of the browser outside search mode;
\* in search mode it is appended to the query and the browser goes on.
C14_QQuitsOutsideSearch ==
    [][(SearchDefault("q") \/ KeyQuit("q")) =>
          IF searching
          THEN /\ proc' = "browser"
               /\ searching'
               /\ query' = Append(query, "q")
          ELSE proc' = "quit"]_vars

\* Quit with a committed query, which esc would have cleared instead.
C14_Witness ==
    /\ proc = "quit"
    /\ cmd = quitCmd
    /\ query # <<>>

(***************************************************************************)
(* Properties of the diff renderer.                                        *)
(***************************************************************************)
Called(op) == out.op = op /\ out.done

Max(a, b) == IF a > b THEN a ELSE b

Blank(w) == [i \in 1..w |-> " "]

ColumnWidth(w) == Max((w - 13) \div 2, 10)

TextWidth(w) == Max(w - 12, 10)

Shown(text) == expandTabs(trimLine(text))

\* The rows a group contributes: a delete group and the add group right
\* after it share max(d, a) rows.
GroupRows(groups, k) ==
    CASE groups[k].op = "del" ->
             Max(Len(groups[k].lines),
                 IF k < Len(groups) /\ groups[k + 1].op = "add"
                 THEN Len(groups[k + 1].lines) ELSE 0)
      [] groups[k].op = "add" /\ k > 1 /\ groups[k - 1].op = "del" -> 0
      [] OTHER -> Len(groups[k].lines)

RECURSIVE RowsBefore(_, _)
RowsBefore(groups, k) ==
    IF k <= 1 THEN 0
    ELSE RowsBefore(groups, k - 1) + GroupRows(groups, k - 1)

\* C15: in the side-by-side layout a delete group of d lines followed at
\* once by an add group of a lines takes exactly max(d, a) rows; in each row
\* the left cell is the delete line with the delete tint while delete lines
\* remain and blank and untinted after, and the right cell is the add line
\* with the add tint while add lines remain and blank and untinted after.
C15_PairedBlockRows ==
    Called("renderSideBySide") =>
        LET groups == groupLines(out.arg.frag.Lines)
            colW   == ColumnWidth(out.arg.width)
        IN /\ Len(out.res) = RowsBefore(groups, Len(groups) + 1)
           /\ \A k \in 1..(Len(groups) - 1) :
                  groups[k].op = "del" /\ groups[k + 1].op = "add" =>
                      LET del  == groups[k].lines
                          add  == groups[k + 1].lines
                          base == RowsBefore(groups, k)
                      IN \A j \in 1..Max(Len(del), Len(add)) :
                             LET row == out.res[base + j] IN
                             /\ IF j <= Len(del)
                                THEN /\ row.lCell = fitStr(del[j], colW)
                                     /\ row.lSty = "delBg"
                                ELSE /\ row.lCell = Blank(colW)
                                     /\ row.lSty = "ctx"
                             /\ IF j <= Len(add)
                                THEN /\ row.rCell = fitStr(add[j], colW)
                                     /\ row.rSty = "addBg"
                                ELSE /\ row.rCell = Blank(colW)
                                     /\ row.rSty = "ctx"

\* Deletes [foo, bar] replaced by [foo2]: two rows, the second one tinted on
\* the delete side only.
C15_Witness ==
    /\ Called("renderSideBySide")
    /\ Len(out.arg.frag.Lines) = 3
    /\ out.arg.frag.Lines[1] = [Op |-> "del", Line |-> <<"f", "o", "o", "\n">>]
    /\ out.arg.frag.Lines[2] = [Op |-> "del", Line |-> <<"b", "a", "r", "\n">>]
    /\ out.arg.frag.Lines[3] =
           [Op |-> "add", Line |-> <<"f", "o", "o", "2", "\n">>]
    /\ Len(out.res) = 2
    /\ out.res[2].lSty = "delBg"
    /\ out.res[2].rSty = "ctx"
    /\ out.res[2].rCell = Blank(ColumnWidth(out.arg.width))

\* C16: for a column width w >= 1, fitStr(text, w) has exactly w runes: the
\* first w-1 runes of the text and one ellipsis when the text has more than
\* w runes, and otherwise the text followed by spaces.
C16_FitStrExactWidth ==
    Called("fitStr") /\ out.arg.w >= 1 =>
        LET s == out.arg.s
            w == out.arg.w
        IN /\ Len(out.res) = w
           /\ IF Len(s) > w
              THEN out.res = SubSeq(s, 1, w - 1) \o <<"<ellipsis>">>
              ELSE out.res = s \o Blank(w - Len(s))

C16_Witness ==
    /\ Called("fitStr")
    /\ out.arg.w >= 2
    /\ Len(out.arg.s) > out.arg.w
    /\ out.res[out.arg.w] = "<ellipsis>"
    /\ out.res[1] = out.arg.s[1]

IsOldLine(l) == l.Op \in {"ctx", "del"}

IsNewLine(l) == l.Op \in {"ctx", "add"}

LeftShown(row) == row.lNum.shown

RightShown(row) == row.rNum.shown

OldShown(row) == row.oldNum.shown

NewShown(row) == row.newNum.shown

\* C17: in both layouts the k-th old-side line of a hunk (k from 0) carries
\* the number OldPosition+k and the k-th new-side line NewPosition+k,
\* however the delete and add groups are paired.
C17_LineNumbersFollowPositions ==
    LET frag     == out.arg.frag
        oldLines == SelectSeq(frag.Lines, IsOldLine)
        newLines == SelectSeq(frag.Lines, IsNewLine)
    IN /\ Called("renderSideBySide") =>
              LET left  == SelectSeq(out.res, LeftShown)
                  right == SelectSeq(out.res, RightShown)
                  colW  == ColumnWidth(out.arg.width)
              IN /\ Len(left) = Len(oldLines)
                 /\ Len(right) = Len(newLines)
                 /\ \A k \in 1..Len(left) :
                        /\ left[k].lNum.n = frag.OldPosition + k - 1
                        /\ left[k].lCell =
                               fitStr(Shown(oldLines[k].Line), colW)
                 /\ \A k \in 1..Len(right) :
                        /\ right[k].rNum.n = frag.NewPosition + k - 1
                        /\ right[k].rCell =
                               fitStr(Shown(newLines[k].Line), colW)
       /\ Called("renderUnified") =>
              LET old   == SelectSeq(out.res, OldShown)
                  new   == SelectSeq(out.res, NewShown)
                  textW == TextWidth(out.arg.width)
              IN /\ Len(old) = Len(oldLines)
                 /\ Len(new) = Len(newLines)
                 /\ \A k \in 1..Len(old) :
                        /\ old[k].oldNum.n = frag.OldPosition + k - 1
                        /\ old[k].text =
                               truncStr(Shown(oldLines[k].Line), textW)
                 /\ \A k \in 1..Len(new) :
                        /\ new[k].newNum.n = frag.NewPosition + k - 1
                        /\ new[k].text =
                               truncStr(Shown(newLines[k].Line), textW)

\* One deleted line replaced by two: the second added line shares no row
\* with a deleted one and is numbered NewPosition+1.
C17_Witness ==
    /\ Called("renderSideBySide")
    /\ out.arg.frag.OldPosition = 3
    /\ out.arg.frag.NewPosition = 5
    /\ Len(out.arg.frag.Lines) = 3
    /\ out.arg.frag.Lines[1].Op = "del"
    /\ out.arg.frag.Lines[2].Op = "add"
    /\ out.arg.frag.Lines[3].Op = "add"
    /\ Len(out.res) = 2
    /\ out.res[1].lNum = [shown |-> TRUE, n |-> 3]
    /\ out.res[1].rNum = [shown |-> TRUE, n |-> 5]
    /\ ~out.res[2].lNum.shown
    /\ out.res[2].rNum = [shown |-> TRUE, n |-> 6]

\* C18: the file header line written by renderFileDiff has exactly `width`
\* columns, for every file name and every width.
C18_HeaderHasWidthColumns ==
    Called("renderFileDiff") =>
        /\ out.res[1].kind = "fileHdr"
        /\ Len(out.res[1].text) = out.arg.width

\* C19: when the parser reports an error or returns no file, renderDiff
\* returns the raw text unmodified, for any width.
C19_FallbackReturnsRaw ==
    Called("renderDiff")
        /\ (out.arg.parse.err \/ Len(out.arg.parse.files) = 0) =>
            /\ out.res.text = out.arg.raw
            /\ out.res.lines = <<>>

C19_Witness ==
    /\ Called("renderDiff")
    /\ out.arg.parse.err
    /\ Len(out.arg.parse.files) = 2
    /\ out.arg.width <= 0
    /\ out.arg.raw # <<>>
    /\ out.res.text = out.arg.raw

(***************************************************************************)
(* Properties of the preview loads.                                        *)
(***************************************************************************)
Selected == selectedFile(allLines, filtered, cursor)

\* C20: a superseded preview result is harmless, the result of the newer
\* request overwrites it: once every preview load in flight has delivered
\* its result, the preview shows the diff of the selected file, the one the
\* newest load was started for.
C20_PreviewShowsSelectedWhenQuiet ==
    ready /\ inflight = {} /\ newest = Selected => vpContent = Selected

(***************************************************************************)
(* Properties of the git operations.                                       *)
(***************************************************************************)
\* C21: getChangedFiles yields one record per status entry, for a rename
\* with the destination path only; the record is untracked, and neither
\* staged nor unstaged, iff the code is ??, and otherwise staged iff X is
\* not blank and unstaged iff Y is not blank.
C21_StatusFlagsFollowCode ==
    Called("getChangedFiles") /\ ~out.arg.err =>
        LET es == out.arg.entries
            fs == out.res.files
        IN /\ ~out.res.err
           /\ Len(fs) = Len(es)
           /\ \A i \in 1..Len(es) :
                  /\ fs[i].path = es[i].path
                  /\ fs[i].untracked = (es[i].xy = <<"?", "?">>)
                  /\ IF es[i].xy = <<"?", "?">>
                     THEN ~fs[i].staged /\ ~fs[i].unstaged
                     ELSE /\ fs[i].staged = (es[i].xy[1] # " ")
                          /\ fs[i].unstaged = (es[i].xy[2] # " ")

\* The entries 'M  a.go', '?? b.txt', 'MM c/d.go'.
C21_Witness ==
    /\ Called("getChangedFiles")
    /\ ~out.arg.err
    /\ Len(out.arg.entries) = 3
    /\ out.arg.entries[1].xy = <<"M", " ">>
    /\ out.arg.entries[2].xy = <<"?", "?">>
    /\ out.arg.entries[3].xy = <<"M", "M">>
    /\ out.res.files =
           <<[path |-> <<"a", ".", "g", "o">>, staged |-> TRUE,
              unstaged |-> FALSE, untracked |-> FALSE],
             [path |-> <<"b", ".", "t", "x", "t">>, staged |-> FALSE,
              unstaged |-> FALSE, untracked |-> TRUE],
             [path |-> <<"c", "/", "d", ".", "g", "o">>, staged |-> TRUE,
              unstaged |-> TRUE, untracked |-> FALSE]>>

\* C22: a failure of a git command never ends the process: it becomes a
\* display state, and the cursor, the scroll offset, the query and the
\* visible list stay as they were.
C22_VcsFailureNeverFatal ==
    [][/\ \A r \in ListResults : Main(r) /\ r.err => proc' = "browser"
       /\ \A f \in 1..Len(files) :
              DiffFailed(f) =>
                  /\ proc' = "browser"
                  /\ vpContent' = 0 - f
                  /\ UNCHANGED <<cursor, scroll, query, filtered>>]_vars

\* The lines of the groups one after the other, each with its group's
\* operation.
RECURSIVE Ungroup(_)
Ungroup(groups) ==
    IF groups = <<>> THEN <<>>
    ELSE [j \in 1..Len(Head(groups).lines) |->
             [Op |-> Head(groups).op, Line |-> Head(groups).lines[j]]]
         \o Ungroup(Tail(groups))

WellGrouped(groups) ==
    /\ \A k \in 1..Len(groups) : groups[k].lines # <<>>
    /\ \A k \in 1..(Len(groups) - 1) : groups[k].op # groups[k + 1].op

\* C23: groupLines gives non-empty groups, adjacent groups of different
\* operations, and the groups' lines one after the other are the input
\* lines, each under its own operation.
C23_GroupsAreTheInputLines ==
    Called("groupLines") =>
        /\ WellGrouped(out.res)
        /\ Ungroup(out.res) = out.arg.lines

\* C23 with the text the groups hold: the input line without its line
\* ending and with its tabs expanded.
C23_GroupsAreTheShownLines ==
    Called("groupLines") =>
        /\ WellGrouped(out.res)
        /\ Ungroup(out.res) =
               [i \in 1..Len(out.arg.lines) |->
                   [Op |-> out.arg.lines[i].Op,
                    Line |-> Shown(out.arg.lines[i].Line)]]

C23_Witness ==
    /\ Called("groupLines")
    /\ Len(out.arg.lines) = 3
    /\ out.arg.lines[1] = [Op |-> "ctx", Line |-> LongLine]
    /\ Len(out.res) = 2
    /\ out.res[1].op = "ctx"
    /\ Len(out.res[2].lines) = 2
    /\ out.res[2].lines[1] # out.res[2].lines[2]

LeftStyle(op) == IF op = "ctx" THEN "ctx" ELSE "delBg"

RightStyle(op) == IF op = "ctx" THEN "ctx" ELSE "addBg"

Standalone(groups, k) ==
    \/ groups[k].op = "del"
           /\ ~(k < Len(groups) /\ groups[k + 1].op = "add")
    \/ groups[k].op = "add" /\ ~(k > 1 /\ groups[k - 1].op = "del")

\* C24: side by side, every line of a hunk is on exactly one row of its
\* side, in the order of the hunk: a context line on both sides of its row,
\* a delete line on the left only, an add line on the right only; a side
\* without a line is blank and untinted; a delete or add group that is not
\* paired has one row per line; the rows are as many as the context lines,
\* plus max(d, a) for each paired block, plus the lines of the unpaired
\* groups.
C24_EveryLineOnceOnItsSide ==
    Called("renderSideBySide") =>
        LET lines    == out.arg.frag.Lines
            groups   == groupLines(lines)
            colW     == ColumnWidth(out.arg.width)
            oldLines == SelectSeq(lines, IsOldLine)
            newLines == SelectSeq(lines, IsNewLine)
            left     == SelectSeq(out.res, LeftShown)
            right    == SelectSeq(out.res, RightShown)
        IN /\ Len(out.res) = RowsBefore(groups, Len(groups) + 1)
           /\ Len(left) = Len(oldLines)
           /\ \A k \in 1..Len(left) :
                  /\ left[k].lCell = fitStr(Shown(oldLines[k].Line), colW)
                  /\ left[k].lSty = LeftStyle(oldLines[k].Op)
           /\ Len(right) = Len(newLines)
           /\ \A k \in 1..Len(right) :
                  /\ right[k].rCell = fitStr(Shown(newLines[k].Line), colW)
                  /\ right[k].rSty = RightStyle(newLines[k].Op)
           /\ \A j \in 1..Len(out.res) :
                  LET row == out.res[j] IN
                  /\ row.lNum.shown \/ row.rNum.shown
                  /\ ~row.lNum.shown =>
                         row.lCell = Blank(colW) /\ row.lSty = "ctx"
                  /\ ~row.rNum.shown =>
                         row.rCell = Blank(colW) /\ row.rSty = "ctx"
                  /\ (row.lNum.shown /\ row.lSty = "ctx")
                         <=> (row.rNum.shown /\ row.rSty = "ctx")
                  /\ row.lNum.shown /\ row.lSty = "ctx" =>
                         row.lCell = row.rCell
           /\ \A k \in 1..Len(groups) :
                  Standalone(groups, k) =>
                      \A j \in 1..Len(groups[k].lines) :
                          LET row == out.res[RowsBefore(groups, k) + j] IN
                          IF groups[k].op = "del"
                          THEN row.lNum.shown /\ ~row.rNum.shown
                          ELSE row.rNum.shown /\ ~row.lNum.shown

\* A delete and an add kept apart by a context line: three rows.
C24_Witness ==
    /\ Called("renderSideBySide")
    /\ Len(out.arg.frag.Lines) = 3
    /\ out.arg.frag.Lines[1].Op = "del"
    /\ out.arg.frag.Lines[2].Op = "ctx"
    /\ out.arg.frag.Lines[3].Op = "add"
    /\ out.arg.frag.OldPosition = 3
    /\ Len(out.res) = 3
    /\ out.res[1].lSty = "delBg" /\ ~out.res[1].rNum.shown
    /\ out.res[2].lCell = out.res[2].rCell
    /\ out.res[3].rSty = "addBg" /\ ~out.res[3].lNum.shown

(***************************************************************************)
(* Properties of the browser, continued.                                   *)
(***************************************************************************)
\* The steps of Update that call updateFilter.
UpdatesFilter ==
    \/ SearchEsc
    \/ SearchBackspace /\ Len(query) > 0
    \/ \E k \in SingleChar : SearchDefault(k)
    \/ KeyEsc /\ query # <<>>

\* C25: when the filter changes, the cursor index stays as it is if it is
\* still an index of the new visible list, becomes the last index if it is
\* past the end, and 0 if the list is empty; the line that was selected is
\* not followed.
C25_FilterChangeKeepsCursorIndex ==
    [][UpdatesFilter =>
           cursor' = IF Len(filtered') = 0 THEN 0
                     ELSE IF cursor < Len(filtered') THEN cursor
                     ELSE Len(filtered') - 1]_vars

\* A query typed while the cursor stays on its index: the line under the
\* cursor is no longer the line of that index.
C25_Witness ==
    /\ searching
    /\ query # <<>>
    /\ cmd = nilCmd
    /\ cursor < Len(filtered)
    /\ filtered[cursor + 1] # cursor

(***************************************************************************)
(* Properties of the tree, continued.                                      *)
(***************************************************************************)
\* The directory prefixes of the paths: what precedes a "/".
DirPrefixes ==
    UNION {{SubSeq(files[f].path, 1, k - 1) :
                k \in {l \in 1..Len(files[f].path) : files[f].path[l] = "/"}} :
           f \in 1..Len(files)}

\* The path of p down to its n-th directory.
PrefixOfDepth(p, n) ==
    LET k == CHOOSE l \in 1..Len(p) :
                 p[l] = "/" /\ Cardinality({m \in 1..l : p[m] = "/"}) = n
    IN SubSeq(p, 1, k - 1)

\* The path of the directory of line i, read from the first file below it.
DirPath(i) ==
    LET j == CHOOSE l \in LineIdx :
                 l > i /\ IsFileLine(l) /\ \A m \in (i + 1)..(l - 1) : IsDirLine(m)
    IN PrefixOfDepth(PathOf(j), Line(i).indent + 1)

RECURSIVE UniqueDirNames(_)
UniqueDirNames(nodes) ==
    /\ \A i, j \in 1..Len(nodes) :
           i # j /\ nodes[i].file = 0 /\ nodes[j].file = 0
               => nodes[i].name # nodes[j].name
    /\ \A i \in 1..Len(nodes) : UniqueDirNames(nodes[i].children)

\* C26: in the built tree no two sibling directories have the same name:
\* every directory prefix of the paths is one directory node, and one
\* directory line of the flattened list.
C26_OneDirectoryPerPrefix ==
    LET dirs == {i \in LineIdx : IsDirLine(i)} IN
    /\ UniqueDirNames(buildTree(files))
    /\ {DirPath(i) : i \in dirs} = DirPrefixes
    /\ \A i, j \in dirs : i # j => DirPath(i) # DirPath(j)
    /\ \A i \in dirs :
           Line(i).name = SubSeq(DirPath(i),
                                 Len(DirPath(i)) - Len(Line(i).name) + 2,
                                 Len(DirPath(i))) \o <<"/">>

\* Two files below a common directory, in different subdirectories.
C26_Witness ==
    /\ Len(files) = 2
    /\ Cardinality({i \in LineIdx : IsDirLine(i)}) = 3
    /\ Cardinality(DirPrefixes) = 3
    /\ Line(0).indent = 0 /\ IsDirLine(0)

\* The index in allLines of the line under the cursor, -1 when nothing is
\* selected.
SelectedLine ==
    IF cursor >= 0 /\ cursor < Len(filtered) THEN filtered[cursor + 1] ELSE -1

\* C27: a step that changes the line under the cursor, or whether there is
\* one, requests the preview of the new selection; an up or down key that
\* leaves the cursor where it is requests none.
C27_SelectionChangeLoadsPreview ==
    [][/\ SelectedLine' # SelectedLine =>
              /\ cmd'.kind = "loadPreview"
              /\ cmd'.file = Selected'
       /\ (KeyUp \/ KeyDown) /\ cursor' = cursor =>
              cmd'.kind # "loadPreview"]_vars

\* The browser with search mode off and no query: where a first esc leaves it.
EscQuits == proc = "browser" /\ ~searching /\ query = <<>>

\* A message that is not a key: a resize, a delivered diff, the pager's return.
NotAKey ==
    \/ \E w \in Widths, h \in Heights : WindowSize(w, h)
    \/ \E f \in 0..Len(files) : DiffLoaded(f)

\* C28: two esc keys in a row quit. The first esc, in search mode or out of
\* it, with a query or without, either quits or leaves search mode off and
\* the query empty; an esc in that state quits; and that state is left by no
\* message other than a key.
C28_TwoEscsQuit ==
    [][/\ (SearchEsc \/ KeyEsc) => proc' = "quit" \/ EscQuits'
       /\ KeyEsc /\ EscQuits => proc' = "quit" /\ cmd' = quitCmd
       /\ NotAKey /\ EscQuits => EscQuits']_vars

\* The browser has quit with search mode off and no query, on the quit
\* command: the state the second esc ends in.
C28_Witness ==
    /\ proc = "quit"
    /\ cmd = quitCmd
    /\ ~searching
    /\ query = <<>>

\* C29: scroll is never negative, and every index renderTree and
\* selectedFile read is an index of the visible list whose element is an
\* index of the line list, whatever the height and the visible list.
C29_RenderingReadsInRange ==
    /\ scroll >= 0
    /\ \A i \in renderTreeReads(scroll, height, filtered)
                    \cup selectedFileReads(filtered, cursor) :
           /\ 0 <= i /\ i < Len(filtered)
           /\ 0 <= filtered[i + 1] /\ filtered[i + 1] < Len(allLines)

\* A terminal of height two or less, the tree scrolled down and drawn from
\* a line that is there.
C29_Witness ==
    /\ ready
    /\ height <= 2
    /\ scroll > 0
    /\ renderTreeReads(scroll, height, filtered) # {}

\* A terminal of height two or less and nothing visible.
C29_WitnessEmpty ==
    /\ ready
    /\ height <= 2
    /\ filtered = <<>>

\* The nearest line before line i with a smaller indent, -1 if there is none.
ParentLine(i) ==
    LET above == {j \in LineIdx : j < i /\ Line(j).indent < Line(i).indent}
    IN IF above = {} THEN -1
       ELSE CHOOSE j \in above : \A l \in above : l <= j

\* The path of the directory holding line i, a line of indent one or more:
\* the path of the file, or of the directory, down to that depth.
HolderPath(i) ==
    PrefixOfDepth(IF IsFileLine(i) THEN PathOf(i) ELSE DirPath(i) \o <<"/">>,
                  Line(i).indent)

\* C30: the flattened list is well-nested.  The first line has indent 0; an
\* indent is at most one above that of the line before, and above it only
\* after a directory line; a directory line is followed by a line one level
\* deeper; and the nearest line above with a smaller indent is the line of
\* the directory the path names at that depth.
C30_FlattenedListWellNested ==
    /\ allLines = flattenTree(buildTree(files), 0)
    /\ Line(0).indent = 0
    /\ \A i \in LineIdx :
           /\ Line(i).indent >= 0
           /\ i > 0 => Line(i).indent <= Line(i - 1).indent + 1
           /\ i > 0 /\ Line(i).indent > Line(i - 1).indent => IsDirLine(i - 1)
           /\ IsDirLine(i) =>
                  /\ i + 1 \in LineIdx
                  /\ Line(i + 1).indent = Line(i).indent + 1
           /\ Line(i).indent = 0 => ParentLine(i) = -1
           /\ Line(i).indent > 0 =>
                  /\ ParentLine(i) \in LineIdx
                  /\ IsDirLine(ParentLine(i))
                  /\ Line(ParentLine(i)).indent = Line(i).indent - 1
                  /\ DirPath(ParentLine(i)) = HolderPath(i)

\* A file two directories down followed by a line of the top level: the
\* indent drops by two, and the file's parent is the second directory.
C30_Witness ==
    \E i \in LineIdx :
        /\ IsFileLine(i) /\ Line(i).indent = 2
        /\ i + 1 \in LineIdx /\ Line(i + 1).indent = 0
        /\ ParentLine(i) = i - 1
        /\ ParentLine(i - 1) = i - 2

(***************************************************************************)
(* Properties of the filter, continued.                                    *)
(***************************************************************************)
\* File line f is visible and its path contains the query.
VisibleMatch(f) ==
    /\ IsFileLine(f)
    /\ Visible(f)
    /\ ContainsFold(PathOf(f), query)

\* C31: a visible list that is not empty holds a file line.  A directory
\* whose label contains the query has a file below it whose path contains
\* it, and that file is visible; a visible directory whose label does not
\* contain the query precedes a visible matching file of larger indent, the
\* file whose backward walk added it.
C31_VisibleSetHoldsAFile ==
    /\ filtered # <<>> => \E f \in LineIdx : IsFileLine(f) /\ Visible(f)
    /\ query # <<>> =>
           \A d \in LineIdx :
               IsDirLine(d) =>
                   /\ ContainsFold(Line(d).name, query) =>
                          \E f \in LineIdx :
                              StrictAncestor(d, f) /\ VisibleMatch(f)
                   /\ Visible(d) /\ ~ContainsFold(Line(d).name, query) =>
                          \E f \in LineIdx :
                              /\ VisibleMatch(f)
                              /\ d < f
                              /\ Line(d).indent < Line(f).indent

\* A query that a directory's label contains and the name of the file below
\* it does not: the file is visible through its path, and a directory above
\* both, which does not match, is visible on behalf of the file.
C31_Witness ==
    /\ query # <<>>
    /\ \E d, f, a \in LineIdx :
           /\ IsDirLine(d) /\ Visible(d)
           /\ ContainsFold(Line(d).name, query)
           /\ StrictAncestor(d, f) /\ VisibleMatch(f)
           /\ ~ContainsFold(Line(f).name, query)
           /\ StrictAncestor(a, d) /\ Visible(a)
           /\ ~ContainsFold(Line(a).name, query)

(***************************************************************************)
(* Properties of the browser: what the messages other than keys leave.     *)
(***************************************************************************)
\* C32: a resize, a delivered diff and the return of the pager leave the
\* cursor, the scroll offset, the query, search mode, the visible list and
\* the line list as they are; no step of Update changes the line list.
C32_MessagesKeepNavigation ==
    [][/\ (\/ \E w \in Widths, h \in Heights : WindowSize(w, h)
           \/ \E f \in 0..Len(files) : DiffLoaded(f)
           \/ ExecFinished)
          => UNCHANGED <<cursor, scroll, query, searching, filtered,
                         allLines>>
       /\ allLines' = allLines]_vars

\* A resize has just been handled in search mode, with a query typed and
\* the tree scrolled down: only the resize returns a preview load there.
C32_Witness ==
    /\ ready
    /\ searching
    /\ query # <<>>
    /\ scroll > 0
    /\ cmd.kind = "loadPreview"

(***************************************************************************)
(* Properties of the layout.                                               *)
(***************************************************************************)
\* The first row renderFileDiff writes for file f at width w: the header,
\* which for a name shorter than w is filled to w columns.
HeaderRow(f, w) ==
    fileHeader([OldName |-> files[f].path, NewName |-> files[f].path], w)

\* C33: after a resize to any width the tree pane is 30 hundredths of the
\* width, kept between 30 and 50; the viewport is what is left beside the
\* pane and its border, and the preview is rendered at the viewport's
\* width, so that a rendered row is no wider than the viewport.
C33_PreviewRenderedAtViewportWidth ==
    [][\A w \in Widths \cup ResizeWidths, h \in Heights :
           WindowSize(w, h) =>
               /\ treeW' = Max(30, IF (w * 30) \div 100 > 50 THEN 50
                                   ELSE (w * 30) \div 100)
               /\ vpWidth' = Max(20, w - treeW' - 1)
               /\ cmd'.kind = "loadPreview"
               /\ cmd'.file # 0 =>
                      /\ cmd'.vpW = vpWidth'
                      /\ Len(HeaderRow(cmd'.file, cmd'.vpW)) <= vpWidth']_vars

====
